---------------------------- MODULE Spec2Model ----------------------------
(***************************************************************************)
(* Model of udpforwarder: the listener specification parser                *)
(* (src/src/args.rs), the listener socket construction                     *)
(* (src/src/listener.rs) and the forwarding loop (src/src/forwarding.rs).  *)
(*                                                                         *)
(* Text is a sequence of one-character strings.  A u32 is a pair of 16-bit *)
(* limbs <<hi, lo>> (value hi * 65536 + lo), so that the whole u32 range   *)
(* and its overflow are represented exactly.  A value a parser step        *)
(* computes and then uses several times is handed to a helper operator as  *)
(* an argument.                                                            *)
(***************************************************************************)
EXTENDS Integers, Sequences, FiniteSets, TLC

(***************************************************************************)
(* Part 1: text parsing.  std's address parser, as used by `str::parse`.   *)
(***************************************************************************)

\* Result of a parser step that failed.
None == [ok |-> FALSE]

\* Result of a parser step that read value v and stands at position pos.
Some(v, pos) == [ok |-> TRUE, v |-> v, pos |-> pos]

HexDigits == <<"0", "1", "2", "3", "4", "5", "6", "7", "8", "9",
               "a", "b", "c", "d", "e", "f">>

UpperHexDigits == <<"0", "1", "2", "3", "4", "5", "6", "7", "8", "9",
                    "A", "B", "C", "D", "E", "F">>

\* char::to_digit(radix): the digit's value, or -1 when c is no digit.
to_digit(c, radix) ==
    IF \E i \in 1..radix : HexDigits[i] = c \/ UpperHexDigits[i] = c
    THEN (CHOOSE i \in 1..radix : HexDigits[i] = c \/ UpperHexDigits[i] = c) - 1
    ELSE -1

\* Parser::peek_char at position pos: the character, or "" at the end.
peek_char(s, pos) == IF pos <= Len(s) THEN s[pos] ELSE ""

\* Parser::read_given_char: the position after c, or 0 when c is not next
\* (or when an earlier step has failed: pos = 0).
read_given_char(s, pos, c) == IF pos > 0 /\ peek_char(s, pos) = c THEN pos + 1 ELSE 0

\* Parser::read_separator, the separator: nothing before the first group,
\* sep before the others.
read_separator(s, pos, sep, index) ==
    IF index > 0 THEN read_given_char(s, pos, sep) ELSE pos

\* Number of consecutive digits of the radix starting at pos.
RECURSIVE digit_run(_, _, _)
digit_run(s, pos, radix) ==
    IF pos <= Len(s) /\ to_digit(s[pos], radix) >= 0
    THEN 1 + digit_run(s, pos + 1, radix)
    ELSE 0

\* Value of the n digits starting at pos (n small enough not to overflow).
RECURSIVE digits_value(_, _, _, _)
digits_value(s, pos, n, radix) ==
    IF n = 0 THEN 0
    ELSE digits_value(s, pos, n - 1, radix) * radix + to_digit(s[pos + n - 1], radix)

\* result.try_into().ok() of read_number: v as a T, when it fits.
try_into_number(v, tmax, pos) == IF v > tmax THEN None ELSE Some(v, pos)

\* Parser::read_number with max_digits = Some(max_digits), given the number
\* n of digits at pos: a u8 or a u16 (tmax), accumulated in a u32.
read_number_digits(s, pos, radix, max_digits, allow_zero_prefix, tmax, n) ==
    IF n > max_digits THEN None
    ELSE IF n = 0 THEN None
    ELSE IF ~allow_zero_prefix /\ peek_char(s, pos) = "0" /\ n > 1 THEN None
    ELSE try_into_number(digits_value(s, pos, n, radix), tmax, pos + n)

\* Parser::read_number with max_digits = Some(max_digits).
read_number_max(s, pos, radix, max_digits, allow_zero_prefix, tmax) ==
    read_number_digits(s, pos, radix, max_digits, allow_zero_prefix, tmax,
                       digit_run(s, pos, radix))

Limb == 256 * 256

U16Max == Limb - 1

\* u16 checked_mul(radix) then checked_add(digit); -1 on overflow.
u16_mul_add(r, radix, digit) ==
    IF r < 0 THEN -1
    ELSE IF r * radix > U16Max THEN -1
    ELSE IF r * radix + digit > U16Max THEN -1
    ELSE r * radix + digit

\* The checked accumulation of read_number for T = u16: result after the n
\* digits at pos, or -1 once checked_mul or checked_add overflows.
RECURSIVE checked_u16(_, _, _, _)
checked_u16(s, pos, n, radix) ==
    IF n = 0 THEN 0
    ELSE u16_mul_add(checked_u16(s, pos, n - 1, radix), radix,
                     to_digit(s[pos + n - 1], radix))

\* The end of read_number without max_digits: overflow or no digit is None.
number_result(overflow, v, n, pos) ==
    IF overflow THEN None ELSE IF n = 0 THEN None ELSE Some(v, pos + n)

read_number_u16_digits(s, pos, n, v) == number_result(v < 0, v, n, pos)

read_number_u16_run(s, pos, n) ==
    read_number_u16_digits(s, pos, n, checked_u16(s, pos, n, 10))

\* Parser::read_number(10, None, true) for a u16 (the port).
read_number_u16(s, pos) == read_number_u16_run(s, pos, digit_run(s, pos, 10))

\* A u32 as two 16-bit limbs.
U32(hi, lo) == <<hi, lo>>

\* The limbs after the multiplication and the addition, before the overflow
\* test: lo is the low limb with its carry still in it.
u32_limbs(hi, lo) == IF hi + (lo \div Limb) >= Limb THEN <<-1, -1>>
                     ELSE U32(hi + (lo \div Limb), lo % Limb)

\* u32 checked_mul(radix) then checked_add(digit) on limbs; <<-1, -1>> on
\* overflow.
u32_mul_add(x, radix, digit) ==
    IF x[1] < 0 THEN x
    ELSE u32_limbs(x[1] * radix, x[2] * radix + digit)

\* The checked accumulation for T = u32 over the n digits at pos.
RECURSIVE checked_u32(_, _, _, _)
checked_u32(s, pos, n, radix) ==
    IF n = 0 THEN U32(0, 0)
    ELSE u32_mul_add(checked_u32(s, pos, n - 1, radix), radix,
                     to_digit(s[pos + n - 1], radix))

read_number_u32_digits(s, pos, n, v) == number_result(v[1] < 0, v, n, pos)

read_number_u32_run(s, pos, n) ==
    read_number_u32_digits(s, pos, n, checked_u32(s, pos, n, 10))

\* Parser::read_number(10, None, true) for a u32 (the scope id).
read_number_u32(s, pos) == read_number_u32_run(s, pos, digit_run(s, pos, 10))

\* One octet of read_ipv4_addr, after its separator: decimal, at most three
\* digits, no zero prefix.
read_octet(s, p1) ==
    IF p1 = 0 THEN None ELSE read_number_max(s, p1, 10, 3, FALSE, 255)

\* Parser::read_ipv4_addr: four decimal octets separated by '.'.
RECURSIVE read_ipv4_groups(_, _, _, _)
RECURSIVE read_ipv4_next(_, _, _, _)
read_ipv4_next(s, i, acc, g) ==
    IF g.ok THEN read_ipv4_groups(s, g.pos, i + 1, Append(acc, g.v)) ELSE None

read_ipv4_groups(s, pos, i, acc) ==
    IF i = 4 THEN Some(acc, pos)
    ELSE read_ipv4_next(s, i, acc, read_octet(s, read_separator(s, pos, ".", i)))

read_ipv4_addr(s, pos) == read_ipv4_groups(s, pos, 0, <<>>)

\* What read_groups returns: the number of groups read, whether an embedded
\* IPv4 address ended them, the groups, and the parser's position.
groups_read(n, ipv4, groups, pos) ==
    [n |-> n, ipv4 |-> ipv4, groups |-> groups, pos |-> pos]

\* One hexadecimal group of read_groups, after its separator.
read_hex_group(s, p1) ==
    IF p1 = 0 THEN None ELSE read_number_max(s, p1, 16, 4, TRUE, U16Max)

\* The embedded IPv4 address read_groups tries at group i, after the
\* separator: only while at least two groups are left.
read_embedded_ipv4(s, p1, i, limit) ==
    IF i < limit - 1 /\ p1 # 0 THEN read_ipv4_addr(s, p1) ELSE None

\* read_groups of Parser::read_ipv6_addr: colon-separated 16-bit groups with
\* an optional trailing embedded IPv4 address; reads at most limit groups.
RECURSIVE read_groups(_, _, _, _, _)
RECURSIVE read_groups_hex(_, _, _, _, _, _)
RECURSIVE read_groups_v4(_, _, _, _, _, _, _)
RECURSIVE read_groups_at(_, _, _, _, _, _)
read_groups_hex(s, pos, i, limit, acc, g) ==
    IF g.ok THEN read_groups(s, g.pos, i + 1, limit, Append(acc, g.v))
    ELSE groups_read(i, FALSE, acc, pos)

read_groups_v4(s, pos, i, limit, acc, p1, v4) ==
    IF v4.ok
    THEN groups_read(i + 2, TRUE,
                     acc \o << v4.v[1] * 256 + v4.v[2], v4.v[3] * 256 + v4.v[4] >>,
                     v4.pos)
    ELSE read_groups_hex(s, pos, i, limit, acc, read_hex_group(s, p1))

read_groups_at(s, pos, i, limit, acc, p1) ==
    read_groups_v4(s, pos, i, limit, acc, p1, read_embedded_ipv4(s, p1, i, limit))

read_groups(s, pos, i, limit, acc) ==
    IF i >= limit THEN groups_read(i, FALSE, acc, pos)
    ELSE read_groups_at(s, pos, i, limit, acc, read_separator(s, pos, ":", i))

Zeros(n) == [i \in 1..n |-> 0]

\* read_ipv6_addr: head and tail concatenated around the zeros of the "::".
ipv6_concat(head, tail) ==
    Some(head.groups \o Zeros(8 - head.n - tail.n) \o tail.groups, tail.pos)

\* read_ipv6_addr after the "::" (c2 is the position after it, or 0).
ipv6_tail(s, head, c2) ==
    IF c2 = 0 THEN None
    ELSE ipv6_concat(head, read_groups(s, c2, 0, 8 - (head.n + 1), <<>>))

\* read_ipv6_addr after the head groups.
ipv6_from_head(s, head) ==
    IF head.n = 8 THEN Some(head.groups, head.pos)
    ELSE IF head.ipv4 THEN None
    ELSE ipv6_tail(s, head,
                   read_given_char(s, read_given_char(s, head.pos, ":"), ":"))

\* Parser::read_ipv6_addr.
read_ipv6_addr(s, pos) == ipv6_from_head(s, read_groups(s, pos, 0, 8, <<>>))

\* After the ':' or the '%' that starts a number: p1 is the position after
\* it, or 0.
read_port_number(s, p1) == IF p1 = 0 THEN None ELSE read_number_u16(s, p1)

\* Parser::read_port: ':' followed by a decimal u16.
read_port(s, pos) == read_port_number(s, read_given_char(s, pos, ":"))

read_scope_number(s, p1) == IF p1 = 0 THEN None ELSE read_number_u32(s, p1)

\* Parser::read_scope_id: '%' followed by a decimal u32.
read_scope_id(s, pos) == read_scope_number(s, read_given_char(s, pos, "%"))

\* std::net::SocketAddr as a value.
SocketAddrV4(ip, port) == [fam |-> "V4", ip |-> ip, port |-> port]

SocketAddrV6(ip, port, flowinfo, scope_id) ==
    [fam |-> "V6", ip |-> ip, port |-> port, flowinfo |-> flowinfo,
     scope_id |-> scope_id]

socket_addr_v4_new(ip, port) ==
    IF port.ok THEN Some(SocketAddrV4(ip, port.v), port.pos) ELSE None

socket_addr_v4_port(s, ip) ==
    IF ip.ok THEN socket_addr_v4_new(ip.v, read_port(s, ip.pos)) ELSE None

\* Parser::read_socket_addr_v4: ip, then port.
read_socket_addr_v4(s, pos) == socket_addr_v4_port(s, read_ipv4_addr(s, pos))

socket_addr_v6_new(ip, scope_id, port) ==
    IF port.ok THEN Some(SocketAddrV6(ip, port.v, 0, scope_id), port.pos) ELSE None

socket_addr_v6_port(s, ip, scope_id, p3) ==
    IF p3 = 0 THEN None ELSE socket_addr_v6_new(ip, scope_id, read_port(s, p3))

\* read_scope_id(..).unwrap_or(0), then the ']'.
socket_addr_v6_close(s, ip, sc) ==
    socket_addr_v6_port(s, ip.v, IF sc.ok THEN sc.v ELSE U32(0, 0),
                        read_given_char(s, IF sc.ok THEN sc.pos ELSE ip.pos, "]"))

socket_addr_v6_scope(s, ip) ==
    IF ip.ok THEN socket_addr_v6_close(s, ip, read_scope_id(s, ip.pos)) ELSE None

socket_addr_v6_open(s, p1) ==
    IF p1 = 0 THEN None ELSE socket_addr_v6_scope(s, read_ipv6_addr(s, p1))

\* Parser::read_socket_addr_v6: '[' ip optional-scope ']' port.
read_socket_addr_v6(s, pos) == socket_addr_v6_open(s, read_given_char(s, pos, "["))

\* Parser::parse_with: the inner parser must consume the whole text.
parse_with(s, r) ==
    IF r.ok THEN (IF r.pos = Len(s) + 1 THEN [ok |-> TRUE, v |-> r.v] ELSE None)
    ELSE None

v4_or_else_v6(s, v4) == IF v4.ok THEN v4 ELSE read_socket_addr_v6(s, 1)

\* Parser::read_socket_addr: V4 first, then V6 from the start of the text.
read_socket_addr(s) == v4_or_else_v6(s, read_socket_addr_v4(s, 1))

\* <SocketAddr as FromStr>::from_str.
parse_SocketAddr(s) == parse_with(s, read_socket_addr(s))

\* <Ipv4Addr as FromStr>::from_str: at most 15 characters.
parse_Ipv4Addr(s) ==
    IF Len(s) > 15 THEN None ELSE parse_with(s, read_ipv4_addr(s, 1))

u32_result(v) == IF v[1] < 0 THEN None ELSE [ok |-> TRUE, v |-> v]

parse_u32_run(s, start, n) ==
    IF n = 0 \/ start + n # Len(s) + 1 THEN None
    ELSE u32_result(checked_u32(s, start, n, 10))

parse_u32_digits(s, start) == parse_u32_run(s, start, digit_run(s, start, 10))

\* <u32 as FromStr>::from_str: optional '+', then decimal digits only.
parse_u32(s) ==
    IF Len(s) = 0 THEN None
    ELSE parse_u32_digits(s, IF Len(s) > 1 /\ s[1] = "+" THEN 2 ELSE 1)

\* Sampled text pieces that the witnesses and the argument lists name.
Txt_10_1_1_10 == <<"1", "0", ".", "1", ".", "1", ".", "1", "0">>  \* "10.1.1.10"

Txt_224_10_10_10 == <<"2", "2", "4", ".", "1", "0", ".", "1", "0", ".", "1", "0">>  \* "224.10.10.10"

Txt_2001_1 == <<"[", "2", "0", "0", "1", ":", ":", "1", "]">>  \* "[2001::1]"

Txt_ff0e_1 == <<"[", "f", "f", "0", "e", ":", ":", "1", "]">>  \* "[ff0e::1]"

Txt_port_4000 == <<":", "4", "0", "0", "0">>  \* ":4000"

Txt_192_168_1_10 == <<"1", "9", "2", ".", "1", "6", "8", ".", "1", ".", "1", "0">>  \* "192.168.1.10"

Txt_2 == <<"2">>  \* "2"

Txt_slash == <<"/">>  \* "/"

Txt_help == <<"-", "-", "h", "e", "l", "p">>  \* "--help"

Txt_h == <<"-", "h">>  \* "-h"

Txt_127_0_0_1 == <<"1", "2", "7", ".", "0", ".", "0", ".", "1">>  \* "127.0.0.1"

Txt_loopback6 == <<"[", ":", ":", "1", "]">>  \* "[::1]"

Txt_port_4001 == <<":", "4", "0", "0", "1">>  \* ":4001"

Txt_port_4002 == <<":", "4", "0", "0", "2">>  \* ":4002"

\* Host parts of the sampled listener texts: unicast, multicast and malformed.
HostTexts ==
    { Txt_10_1_1_10,  \* "10.1.1.10"
      Txt_224_10_10_10,  \* "224.10.10.10"
      <<"2", "2", "3", ".", "2", "5", "5", ".", "2", "5", "5", ".", "2", "5", "5">>,  \* "223.255.255.255"
      <<"2", "3", "9", ".", "2", "5", "5", ".", "2", "5", "5", ".", "2", "5", "5">>,  \* "239.255.255.255"
      <<"2", "4", "0", ".", "0", ".", "0", ".", "0">>,  \* "240.0.0.0"
      <<"2", "2", "4", ".", "1", ".", "1">>,  \* "224.1.1"
      <<"2", "2", "4", ".", "0", "1", ".", "1", ".", "1">>,  \* "224.01.1.1"
      Txt_2001_1,  \* "[2001::1]"
      Txt_ff0e_1,  \* "[ff0e::1]"
      <<"[", "f", "f", "0", "e", ":", ":", "1", "%", "3", "]">>,  \* "[ff0e::1%3]"
      <<"[", "F", "F", "0", "2", ":", ":", "1", "]">>,  \* "[FF02::1]"
      <<"[", "f", "e", "f", "f", ":", ":", "1", "]">>,  \* "[feff::1]"
      <<"[", ":", ":", "f", "f", "f", "f", ":", "2", "2", "4", ".", "0", ".", "0", ".", "1", "]">>,  \* "[::ffff:224.0.0.1]"
      <<"f", "f", "0", "e", ":", ":", "1">>,  \* "ff0e::1"
      <<>>,  \* ""
      <<"h", "o", "s", "t">> }  \* "host"

\* Port parts of the sampled listener texts.
PortTexts ==
    { Txt_port_4000,  \* ":4000"
      <<":", "0">>,  \* ":0"
      <<":", "6", "5", "5", "3", "6">>,  \* ":65536"
      <<>> }  \* ""

\* Detail parts of the sampled listener texts, with their '/'.
DetailTexts ==
    { <<>>,  \* ""
      Txt_slash,  \* "/"
      Txt_slash \o Txt_192_168_1_10,  \* "/192.168.1.10"
      <<"/", "0", ".", "0", ".", "0", ".", "0">>,  \* "/0.0.0.0"
      Txt_slash \o Txt_2,  \* "/2"
      <<"/", "0">>,  \* "/0"
      <<"/", "4", "2", "9", "4", "9", "6", "7", "2", "9", "5">>,  \* "/4294967295"
      <<"/", "4", "2", "9", "4", "9", "6", "7", "2", "9", "6">>,  \* "/4294967296"
      <<"/", "+", "2">>,  \* "/+2"
      <<"/", "x">>,  \* "/x"
      <<"/", "2", "/", "3">>,  \* "/2/3"
      <<"/", "1", ".", "2", ".", "3", ".", "4", "/">>,  \* "/1.2.3.4/"
      <<"/", "-", "1">> }  \* "/-1"
(***************************************************************************)
(* Part 2: ListenerSpec and the command-line arguments (args.rs).          *)
(***************************************************************************)

\* Ipv4Addr::UNSPECIFIED.
Ipv4Unspecified == <<0, 0, 0, 0>>

\* Ipv6Addr::UNSPECIFIED.
Ipv6Unspecified == Zeros(8)

\* Ipv4Addr::is_multicast: 224.0.0.0/4.
is_multicast_v4(ip) == ip[1] >= 224 /\ ip[1] <= 239

\* Ipv6Addr::is_multicast: ff00::/8.
is_multicast_v6(ip) == ip[1] \div 256 = 255

\* IpAddr::is_multicast of a socket address's IP.
is_multicast(addr) ==
    IF addr.fam = "V4" THEN is_multicast_v4(addr.ip) ELSE is_multicast_v6(addr.ip)

\* The variants of ListenerSpec.
Unicast(addr) == [tag |-> "Unicast", addr |-> addr]

MulticastV4(multicast_group, local_addr) ==
    [tag |-> "MulticastV4", multicast_group |-> multicast_group,
     local_addr |-> local_addr]

MulticastV6(multicast_group, interface_id) ==
    [tag |-> "MulticastV6", multicast_group |-> multicast_group,
     interface_id |-> interface_id]

\* Result values.
Ok(v) == [ok |-> TRUE, v |-> v]

Err(e) == [ok |-> FALSE, err |-> e]

\* str::split_once('/'): the position of the first '/', or 0.
split_once(s) ==
    IF \E k \in 1..Len(s) : s[k] = "/"
    THEN CHOOSE k \in 1..Len(s) : s[k] = "/" /\ \A j \in 1..(k - 1) : s[j] # "/"
    ELSE 0

\* from_str_bare without the multicast test: every bare address is Unicast.
from_str_bare_unicast(addr) == Ok(Unicast(addr))

\* ListenerSpec::from_str, first part: the text parsed as a socket address
\* without further details.
from_str_bare(addr) ==
    IF addr.fam = "V4"
    THEN IF is_multicast_v4(addr.ip)
         THEN Ok(MulticastV4(addr, Ipv4Unspecified))
         ELSE Ok(Unicast(addr))
    ELSE IF is_multicast_v6(addr.ip)
         THEN Ok(MulticastV6(addr, U32(0, 0)))
         ELSE Ok(Unicast(addr))

\* from_str, lines 104-110: the detail of an IPv4 group.
multicast_v4_details(multicast_group, local_addr) ==
    IF local_addr.ok THEN Ok(MulticastV4(multicast_group, local_addr.v))
    ELSE Err("()")

\* multicast_v6_details with the parsed interface id dropped for the default.
multicast_v6_details_default(multicast_group, interface_id) ==
    IF interface_id.ok THEN Ok(MulticastV6(multicast_group, U32(0, 0)))
    ELSE Err("()")

\* from_str, lines 114-120: the detail of an IPv6 group.
multicast_v6_details(multicast_group, interface_id) ==
    IF interface_id.ok THEN Ok(MulticastV6(multicast_group, interface_id.v))
    ELSE Err("()")

\* from_str_details falling back to Unicast for a group that is no multicast
\* address.
from_str_details_downgrade(multicast_group, local_intf) ==
    IF ~multicast_group.ok THEN Err("()")
    ELSE IF multicast_group.v.fam = "V4" /\ is_multicast_v4(multicast_group.v.ip)
    THEN multicast_v4_details(multicast_group.v, parse_Ipv4Addr(local_intf))
    ELSE IF multicast_group.v.fam = "V6" /\ is_multicast_v6(multicast_group.v.ip)
    THEN multicast_v6_details(multicast_group.v, parse_u32(local_intf))
    ELSE Ok(Unicast(multicast_group.v))

\* ListenerSpec::from_str, second part: a multicast group (as parsed) and
\* the text of its details.
from_str_details(multicast_group, local_intf) ==
    IF ~multicast_group.ok THEN Err("()")
    ELSE IF multicast_group.v.fam = "V4" /\ is_multicast_v4(multicast_group.v.ip)
    THEN multicast_v4_details(multicast_group.v, parse_Ipv4Addr(local_intf))
    ELSE IF multicast_group.v.fam = "V6" /\ is_multicast_v6(multicast_group.v.ip)
    THEN multicast_v6_details(multicast_group.v, parse_u32(local_intf))
    ELSE Err("()")

\* from_str, lines 97-101: the text split at position k of its first '/'.
from_str_split(s, k) ==
    IF k = 0 THEN Err("()")
    ELSE from_str_details(parse_SocketAddr(SubSeq(s, 1, k - 1)),
                          SubSeq(s, k + 1, Len(s)))

from_str_parsed(s, addr) ==
    IF addr.ok THEN from_str_bare(addr.v) ELSE from_str_split(s, split_once(s))

\* <ListenerSpec as FromStr>::from_str.
from_str(s) == from_str_parsed(s, parse_SocketAddr(s))

\* The destination tokens parsed in order and collected into a Result: the
\* addresses, or the error of the first token that does not parse.
RECURSIVE collect_forward_addrs(_)
RECURSIVE collect_rest(_, _)
collect_push(a, rest) == IF rest.ok THEN Ok(<<a>> \o rest.v) ELSE rest

collect_rest(a, tokens) ==
    IF a.ok THEN collect_push(a.v, collect_forward_addrs(tokens))
    ELSE Err("AddrParseError")

collect_forward_addrs(tokens) ==
    IF tokens = <<>> THEN Ok(<<>>)
    ELSE collect_rest(parse_SocketAddr(Head(tokens)), Tail(tokens))

\* parse_args_forward without the test for an empty destination list.
parse_args_forward_unchecked(listener_spec, forward_addrs) ==
    IF ~forward_addrs.ok THEN Err("ForwardSpec")
    ELSE Ok([listener_spec |-> listener_spec, forward_addrs |-> forward_addrs.v])

\* parse_args, lines 49-61: the destinations, collected.
parse_args_forward(listener_spec, forward_addrs) ==
    IF ~forward_addrs.ok THEN Err("ForwardSpec")
    ELSE IF forward_addrs.v = <<>> THEN Err("MissingArgs")
    ELSE Ok([listener_spec |-> listener_spec, forward_addrs |-> forward_addrs.v])

\* parse_args, lines 43-47: the listener token, parsed.
parse_args_listener(listener_spec, rest) ==
    IF ~listener_spec.ok THEN Err("ListenerSpec")
    ELSE parse_args_forward(listener_spec.v, collect_forward_addrs(rest))

\* parse_args.
parse_args(args) ==
    IF args = <<>> THEN Err("MissingArgs")
    ELSE IF Head(args) = Txt_help \/ Head(args) = Txt_h THEN Err("Help")
    ELSE parse_args_listener(from_str(Head(args)), Tail(args))

(***************************************************************************)
(* Part 3: sockets and the forwarding loop (listener.rs, forwarding.rs).   *)
(***************************************************************************)

\* Option values.
OptNone == [is_some |-> FALSE]

OptSome(x) == [is_some |-> TRUE, val |-> x]

\* const MTU in forward: the length of the receive buffer.
MTU == 1500

\* Most datagrams the network delivers to the listener in one run.
MaxRecv == 2

\* Longest destination list of a forward call.
MaxDests == 2

\* Longest argument list of a parse_args call.
MaxArgs == 3

\* A datagram of len bytes, each byte in 1..255 and depending on its place.
Pattern(len, seed) == [i \in 1..len |-> ((seed + i) % 255) + 1]

\* The datagrams the network may deliver: empty, short, exactly MTU bytes
\* and longer than MTU.
Datagrams ==
    { <<>>, Pattern(3, 40), Pattern(MTU, 1), Pattern(MTU + 1, 100) }

\* The errors an I/O call may report.
IoErrors == {"PermissionDenied", "ConnectionRefused"}

\* Listener specifications of the sampled forward calls.
ForwardListenerTexts ==
    { Txt_127_0_0_1 \o Txt_port_4000,
      Txt_224_10_10_10 \o Txt_port_4000 \o Txt_slash \o Txt_192_168_1_10,
      Txt_ff0e_1 \o Txt_port_4000 \o Txt_slash \o Txt_2 }

ListenerSpecs == {from_str(t).v : t \in ForwardListenerTexts}

\* Destination addresses of the sampled forward calls, one per IP family.
DestTexts == {Txt_127_0_0_1 \o Txt_port_4001, Txt_loopback6 \o Txt_port_4002}

DestAddrs == {parse_SocketAddr(t).v : t \in DestTexts}

DestLists == UNION {[1..n -> DestAddrs] : n \in 0..MaxDests}

\* Listener texts of the sampled from_str calls.
Texts == {h \o p \o d : h \in HostTexts, p \in PortTexts, d \in DetailTexts}

\* Tokens of the sampled argument lists.
ArgTokens ==
    { Txt_help, Txt_h,
      Txt_10_1_1_10 \o Txt_port_4000,
      Txt_224_10_10_10 \o Txt_port_4000 \o Txt_slash \o Txt_192_168_1_10,
      Txt_10_1_1_10 \o Txt_port_4000 \o Txt_slash \o Txt_2,
      Txt_127_0_0_1 \o Txt_port_4001,
      Txt_loopback6 \o Txt_port_4002,
      Txt_127_0_0_1 }

ArgLists == UNION {[1..n -> ArgTokens] : n \in 0..MaxArgs}

VARIABLES
    call,       \* the call under way: from_str(s), parse_args(args) or forward(..)
    ret,        \* its return value, once pc = "return"
    pc,         \* the position of the call
    listener,   \* forward: the listening socket
    senders,    \* forward: the Senders struct
    buffer,     \* forward: the receive buffer
    num_bytes,  \* forward: the byte count of the last receive
    idx,        \* forward: position of the for loop in forward_addrs
    next_sock,  \* identity given to the next socket bound
    trace       \* the receive and send calls made on the sockets, in order

vars == <<call, ret, pc, listener, senders, buffer, num_bytes, idx, next_sock, trace>>

\* The return value before the call returns.
Pending == [pending |-> TRUE]

\* State of the forward variables before forward has created anything.
NothingOpen ==
    /\ listener = OptNone
    /\ senders = [sender_v4 |-> OptNone, sender_v6 |-> OptNone]
    /\ buffer = <<>>
    /\ num_bytes = 0
    /\ idx = 0
    /\ next_sock = 1
    /\ trace = <<>>

forward_vars == <<listener, senders, buffer, num_bytes, idx, next_sock, trace>>

\* A call of ListenerSpec::from_str or of parse_args.
InitParse ==
    /\ call \in {[op |-> "from_str", s |-> t] : t \in Texts}
                \cup {[op |-> "parse_args", args |-> a] : a \in ArgLists}
    /\ ret = Pending
    /\ pc = "call"
    /\ NothingOpen

\* A call of forward.
Init ==
    /\ call \in {[op |-> "forward", listener_spec |-> ls, forward_addrs |-> fa] :
                    ls \in ListenerSpecs, fa \in DestLists}
    /\ ret = Pending
    /\ pc = "try_into"
    /\ NothingOpen

CallFromStr ==
    /\ pc = "call" /\ call.op = "from_str"
    /\ ret' = from_str(call.s)
    /\ pc' = "return"
    /\ UNCHANGED <<call, forward_vars>>

CallParseArgs ==
    /\ pc = "call" /\ call.op = "parse_args"
    /\ ret' = parse_args(call.args)
    /\ pc' = "return"
    /\ UNCHANGED <<call, forward_vars>>

\* The socket <UdpSocket as TryFrom<ListenerSpec>>::try_from binds, and the
\* group it joins.
try_from(listener_spec, id) ==
    IF listener_spec.tag = "Unicast"
    THEN [id |-> id, local |-> listener_spec.addr, joined |-> <<>>]
    ELSE IF listener_spec.tag = "MulticastV4"
    THEN [id |-> id,
          local |-> SocketAddrV4(Ipv4Unspecified, listener_spec.multicast_group.port),
          joined |-> <<[group |-> listener_spec.multicast_group.ip,
                        interface |-> listener_spec.local_addr]>>]
    ELSE [id |-> id,
          local |-> SocketAddrV6(Ipv6Unspecified, listener_spec.multicast_group.port,
                                 0, U32(0, 0)),
          joined |-> <<[group |-> listener_spec.multicast_group.ip,
                        interface |-> listener_spec.interface_id]>>]

\* forward, line 12: the listener is bound (and joins its group), or the
\* bind or the join fails and forward returns the error.
TryInto ==
    /\ pc = "try_into"
    /\ \E outcome \in {"ok", "bind_err", "join_err"}, e \in IoErrors :
          /\ outcome = "join_err" => call.listener_spec.tag # "Unicast"
          /\ IF outcome = "ok"
             THEN /\ listener' = OptSome(try_from(call.listener_spec, next_sock))
                  /\ next_sock' = next_sock + 1
                  /\ pc' = "for_addresses"
                  /\ ret' = ret
             ELSE /\ ret' = Err(e)
                  /\ pc' = "return"
                  /\ UNCHANGED <<listener, next_sock>>
    /\ UNCHANGED <<call, senders, buffer, num_bytes, idx, trace>>

any_ipv4(forward_specs) == \E i \in 1..Len(forward_specs) : forward_specs[i].fam = "V4"

any_ipv6(forward_specs) == \E i \in 1..Len(forward_specs) : forward_specs[i].fam = "V6"

\* for_addresses binding the IPv6 sender only when the list holds no IPv4
\* address.
for_addresses_either(forward_specs, id) ==
    [sender_v4 |->
        IF any_ipv4(forward_specs)
        THEN OptSome([id |-> id, local |-> SocketAddrV4(Ipv4Unspecified, 0),
                      joined |-> <<>>])
        ELSE OptNone,
     sender_v6 |->
        IF ~any_ipv4(forward_specs) /\ any_ipv6(forward_specs)
        THEN OptSome([id |-> id,
                      local |-> SocketAddrV6(Ipv6Unspecified, 0, 0, U32(0, 0)),
                      joined |-> <<>>])
        ELSE OptNone]

\* Senders::for_addresses when every bind succeeds: one socket per family
\* that the list holds.
for_addresses(forward_specs, id) ==
    [sender_v4 |->
        IF any_ipv4(forward_specs)
        THEN OptSome([id |-> id, local |-> SocketAddrV4(Ipv4Unspecified, 0),
                      joined |-> <<>>])
        ELSE OptNone,
     sender_v6 |->
        IF any_ipv6(forward_specs)
        THEN OptSome([id |-> IF any_ipv4(forward_specs) THEN id + 1 ELSE id,
                      local |-> SocketAddrV6(Ipv6Unspecified, 0, 0, U32(0, 0)),
                      joined |-> <<>>])
        ELSE OptNone]

\* Number of sockets a Senders value holds.
sender_count(s) ==
    (IF s.sender_v4.is_some THEN 1 ELSE 0) + (IF s.sender_v6.is_some THEN 1 ELSE 0)

\* forward, lines 13-16: the senders are bound and the buffer is allocated,
\* or a bind fails and forward returns the error.
ForAddresses ==
    /\ pc = "for_addresses"
    /\ \E fail \in {"none", "v4", "v6"}, e \in IoErrors :
          /\ fail = "v4" => any_ipv4(call.forward_addrs)
          /\ fail = "v6" => any_ipv6(call.forward_addrs)
          /\ IF fail = "none"
             THEN /\ senders' = for_addresses(call.forward_addrs, next_sock)
                  /\ next_sock' = next_sock + sender_count(senders')
                  /\ buffer' = Zeros(MTU)
                  /\ pc' = "recv"
                  /\ ret' = ret
             ELSE /\ ret' = Err(e)
                  /\ pc' = "return"
                  /\ UNCHANGED <<senders, next_sock, buffer>>
    /\ UNCHANGED <<call, listener, num_bytes, idx, trace>>

\* recv_len for a receive into one byte less than the buffer.
recv_len_short(d, buf) == IF Len(d) < Len(buf) THEN Len(d) ELSE Len(buf) - 1

\* UdpSocket::recv: the byte count returned for datagram d and a buffer.
recv_len(d, buf) == IF Len(d) < Len(buf) THEN Len(d) ELSE Len(buf)

\* UdpSocket::recv: the buffer after datagram d is received into it; bytes
\* of d beyond the buffer are discarded, the rest of the buffer is kept.
recv_into(d, buf) ==
    [i \in 1..Len(buf) |-> IF i <= recv_len(d, buf) THEN d[i] ELSE buf[i]]

\* forward, line 19: one datagram is received, or the receive fails and
\* forward returns the error.
Recv ==
    /\ pc = "recv"
    /\ \/ /\ Cardinality({i \in 1..Len(trace) : trace[i].ev = "recv"}) < MaxRecv
          /\ \E d \in Datagrams :
                /\ buffer' = recv_into(d, buffer)
                /\ num_bytes' = recv_len(d, buffer)
                /\ trace' = Append(trace, [ev |-> "recv", ok |-> TRUE, data |-> d,
                                           on |-> listener.val.id])
          /\ idx' = IF Len(call.forward_addrs) = 0 THEN 0 ELSE 1
          /\ pc' = IF Len(call.forward_addrs) = 0 THEN "recv" ELSE "send"
          /\ ret' = ret
       \/ \E e \in IoErrors :
             /\ trace' = Append(trace, [ev |-> "recv", ok |-> FALSE, err |-> e,
                                        on |-> listener.val.id])
             /\ ret' = Err(e)
             /\ pc' = "return"
             /\ UNCHANGED <<buffer, num_bytes, idx>>
    /\ UNCHANGED <<call, listener, senders, next_sock>>

\* forward_addr stuck at the first destination.
forward_addr_first(forward_addrs, i) == forward_addrs[1]

\* The destination the for loop of forward is at.
forward_addr(forward_addrs, i) == forward_addrs[i]

\* payload as the whole buffer: &buffer.
payload_whole_buffer(buf, n) == buf

\* payload with an inclusive range: &buffer[..=num_bytes].
payload_inclusive(buf, n) == SubSeq(buf, 1, IF n < Len(buf) THEN n + 1 ELSE n)

\* The slice forward passes to send_to: &buffer[..num_bytes].
payload(buf, n) == SubSeq(buf, 1, n)

\* Senders::send_to: the sender of the address's IP family.
select_sender(s, addr) == IF addr.fam = "V4" THEN s.sender_v4 ELSE s.sender_v6

\* after_send with the error of send_to dropped instead of returned.
after_send_ignoring_error(ok, i, n) == IF i < n THEN "send" ELSE "recv"

\* Where forward goes after a send_to: out with the error (the `?`), to the
\* next destination, or back to the receive.
after_send(ok, i, n) ==
    IF ~ok THEN "return" ELSE IF i < n THEN "send" ELSE "recv"

\* forward, lines 21-23: one send_to of the for loop.  A missing sender is
\* the panic of `expect`.
SendTo ==
    /\ pc = "send"
    /\ LET addr == forward_addr(call.forward_addrs, idx)
           sender == select_sender(senders, addr)
           data == payload(buffer, num_bytes)
       IN  IF ~sender.is_some
           THEN /\ pc' = "panic"
                /\ UNCHANGED <<ret, idx, trace>>
           ELSE \E outcome \in {"ok"} \cup IoErrors :
                   /\ trace' = Append(trace,
                         [ev |-> "send_to", ok |-> (outcome = "ok"), data |-> data,
                          to |-> addr, on |-> sender.val.id, err |-> outcome])
                   /\ pc' = after_send(outcome = "ok", idx, Len(call.forward_addrs))
                   /\ ret' = IF pc' = "return" THEN Err(outcome) ELSE ret
                   /\ idx' = IF pc' = "send" THEN idx + 1 ELSE 0
    /\ UNCHANGED <<call, listener, senders, buffer, num_bytes, next_sock>>

NextParse == CallFromStr \/ CallParseArgs

Next == TryInto \/ ForAddresses \/ Recv \/ SendTo

\* forward, from its call on.
Spec == Init /\ [][Next]_vars

\* One call of from_str or of parse_args.
SpecParse == InitParse /\ [][NextParse]_vars

(***************************************************************************)
(* Part 4: the properties.                                                 *)
(***************************************************************************)

ReturnedFromStr == pc = "return" /\ call.op = "from_str"

ReturnedParseArgs == pc = "return" /\ call.op = "parse_args"

\* The positions of '/' in a text.
Slashes(s) == {k \in 1..Len(s) : s[k] = "/"}

BeforeSlash(s, k) == SubSeq(s, 1, k - 1)

AfterSlash(s, k) == SubSeq(s, k + 1, Len(s))

\* What C3 requires of the result r for a text whose parse as a bare socket
\* address is addr.
BareListener(addr, r) ==
    addr.ok =>
        /\ r.ok
        /\ ~is_multicast(addr.v) => r.v = [tag |-> "Unicast", addr |-> addr.v]
        /\ (addr.v.fam = "V4" /\ is_multicast(addr.v)) =>
              r.v = [tag |-> "MulticastV4", multicast_group |-> addr.v,
                     local_addr |-> <<0, 0, 0, 0>>]
        /\ (addr.v.fam = "V6" /\ is_multicast(addr.v)) =>
              r.v = [tag |-> "MulticastV6", multicast_group |-> addr.v,
                     interface_id |-> <<0, 0>>]

\* C3: for every text that parses as a bare socket address, from_str
\* succeeds and returns Unicast of that address when its IP is not
\* multicast, MulticastV4 with that group and local_addr 0.0.0.0 when it is
\* an IPv4 multicast address, and MulticastV6 with that group and
\* interface_id 0 when it is an IPv6 multicast address.
C3_BareAddress ==
    ReturnedFromStr => BareListener(parse_SocketAddr(call.s), ret)

\* from_str of "224.10.10.10:4000" has returned the IPv4 group with the
\* unspecified local address.
C3_Witness ==
    /\ ReturnedFromStr
    /\ call.s = Txt_224_10_10_10 \o Txt_port_4000
    /\ ret = [ok |-> TRUE,
              v |-> [tag |-> "MulticastV4",
                     multicast_group |-> [fam |-> "V4", ip |-> <<224, 10, 10, 10>>,
                                          port |-> 4000],
                     local_addr |-> <<0, 0, 0, 0>>]]

\* What C4 requires of the result r for a text <group>/<detail>, given the
\* parse of the group and the two parses of the detail.
DetailedListener(group, v4detail, u32detail, r) ==
    (group.ok /\ is_multicast(group.v)) =>
        /\ (group.v.fam = "V4" /\ v4detail.ok) =>
              r = [ok |-> TRUE,
                   v |-> [tag |-> "MulticastV4", multicast_group |-> group.v,
                          local_addr |-> v4detail.v]]
        /\ (group.v.fam = "V6" /\ u32detail.ok) =>
              r = [ok |-> TRUE,
                   v |-> [tag |-> "MulticastV6", multicast_group |-> group.v,
                          interface_id |-> u32detail.v]]

\* C4: for every text <group>/<detail> whose group is a multicast socket
\* address and whose detail has the syntax of the group's family (an IPv4
\* address for an IPv4 group, a u32 for an IPv6 group), from_str returns the
\* multicast variant of that family with exactly that group and exactly the
\* parsed detail.
C4_GroupWithDetail ==
    ReturnedFromStr =>
        \A k \in Slashes(call.s) :
            DetailedListener(parse_SocketAddr(BeforeSlash(call.s, k)),
                             parse_Ipv4Addr(AfterSlash(call.s, k)),
                             parse_u32(AfterSlash(call.s, k)), ret)

\* from_str of "[ff0e::1]:4000/2" has returned the IPv6 group with
\* interface id 2.
C4_Witness ==
    /\ ReturnedFromStr
    /\ call.s = Txt_ff0e_1 \o Txt_port_4000 \o Txt_slash \o Txt_2
    /\ ret = [ok |-> TRUE,
              v |-> [tag |-> "MulticastV6",
                     multicast_group |-> [fam |-> "V6",
                                          ip |-> <<65294, 0, 0, 0, 0, 0, 0, 1>>,
                                          port |-> 4000, flowinfo |-> 0,
                                          scope_id |-> <<0, 0>>],
                     interface_id |-> <<0, 2>>]]

\* The texts <group>/<detail> that C5 names: a group that is no multicast
\* address, or a detail of the other family's syntax.
RejectedDetail(group, v4detail, u32detail) ==
    group.ok /\ \/ ~is_multicast(group.v)
                \/ group.v.fam = "V4" /\ is_multicast(group.v) /\ u32detail.ok
                \/ group.v.fam = "V6" /\ is_multicast(group.v) /\ v4detail.ok

\* A multicast variant carries a multicast group IP.
MulticastIsMulticast(r) ==
    (r.ok /\ r.v.tag # "Unicast") => is_multicast(r.v.multicast_group)

\* C5: from_str returns an error for a non-multicast socket address followed
\* by /detail, for a multicast group followed by a detail of the other
\* family's syntax, and for a text that is neither a bare socket address nor
\* holds a '/'; a multicast variant always carries a multicast group IP, and
\* Unicast is never returned for a text with details.
C5_Rejected ==
    ReturnedFromStr =>
        /\ \A k \in Slashes(call.s) :
              RejectedDetail(parse_SocketAddr(BeforeSlash(call.s, k)),
                             parse_Ipv4Addr(AfterSlash(call.s, k)),
                             parse_u32(AfterSlash(call.s, k))) => ~ret.ok
        /\ (Slashes(call.s) = {} /\ ~parse_SocketAddr(call.s).ok) => ~ret.ok
        /\ MulticastIsMulticast(ret)
        /\ (ret.ok /\ ret.v.tag = "Unicast") => Slashes(call.s) = {}

\* from_str of "10.1.1.10:4000/2", a unicast address with details, has
\* returned the error.
C5_Witness ==
    /\ ReturnedFromStr
    /\ call.s = Txt_10_1_1_10 \o Txt_port_4000 \o Txt_slash \o Txt_2
    /\ ret = [ok |-> FALSE, err |-> "()"]

IsHelp(token) == token = Txt_help \/ token = Txt_h

\* C8 as stated: parse_args reports MissingArgs whenever the listener token
\* is absent or the destination list is empty (no token follows the first),
\* and the parse failures only for a token that is present and unparsable.
C8_Original ==
    ReturnedParseArgs =>
        /\ Len(call.args) <= 1 => ret = [ok |-> FALSE, err |-> "MissingArgs"]
        /\ (~ret.ok /\ ret.err = "ListenerSpec") =>
              (Len(call.args) >= 1 /\ ~from_str(call.args[1]).ok)
        /\ (~ret.ok /\ ret.err = "ForwardSpec") =>
              \E i \in 2..Len(call.args) : ~parse_SocketAddr(call.args[i]).ok

\* C8, amended: parse_args reports MissingArgs exactly when the argument
\* list is empty, or when its first token is not a help flag, parses as a
\* listener specification and is followed by no destination token; a help
\* flag (Help) and an unparsable first token (ListenerSpec) are reported
\* even when no destination follows.  ListenerSpec and ForwardSpec are
\* reported only for a token that is present and unparsable.
C8_MissingArgs ==
    ReturnedParseArgs =>
        /\ ret = [ok |-> FALSE, err |-> "MissingArgs"]
              <=> \/ call.args = <<>>
                  \/ /\ Len(call.args) = 1
                     /\ ~IsHelp(call.args[1])
                     /\ from_str(call.args[1]).ok
        /\ (Len(call.args) >= 1 /\ IsHelp(call.args[1])) =>
              ret = [ok |-> FALSE, err |-> "Help"]
        /\ (~ret.ok /\ ret.err = "ListenerSpec") =>
              (Len(call.args) >= 1 /\ ~from_str(call.args[1]).ok)
        /\ (~ret.ok /\ ret.err = "ForwardSpec") =>
              \E i \in 2..Len(call.args) : ~parse_SocketAddr(call.args[i]).ok

\* parse_args of the one token "10.1.1.10:4000" has reported MissingArgs.
C8_Witness ==
    /\ ReturnedParseArgs
    /\ call.args = << Txt_10_1_1_10 \o Txt_port_4000 >>
    /\ ret = [ok |-> FALSE, err |-> "MissingArgs"]

Relaying == {"recv", "send"}

IsRecv(e) == e.ev = "recv"

IsRecvOk(e) == e.ev = "recv" /\ e.ok

IsSend(e) == e.ev = "send_to"

IsSendOk(e) == e.ev = "send_to" /\ e.ok

\* The datagrams received and the sends that succeeded, in order.
Received == SelectSeq(trace, IsRecvOk)

Sent == SelectSeq(trace, IsSendOk)

\* Number of successful sends, and of datagrams received, among the first
\* p - 1 events of the trace.
SendsBefore(p) == Cardinality({q \in 1..(p - 1) : IsSendOk(trace[q])})

RecvsBefore(p) == Cardinality({q \in 1..(p - 1) : IsRecvOk(trace[q])})

\* The receive that the send at position p of the trace relays.
RecvOf(p) ==
    CHOOSE q \in 1..(p - 1) :
        IsRecvOk(trace[q]) /\ \A r \in (q + 1)..(p - 1) : ~IsRecv(trace[r])

LastEvent(t) == t[Len(t)]

\* Datagram d as forward is to relay it: its first 1500 bytes.
Forwarded(d) == SubSeq(d, 1, IF Len(d) < MTU THEN Len(d) ELSE MTU)

\* C1: with a unicast listener and a single destination, the datagrams of at
\* most 1500 bytes that the listener receives are sent to the destination
\* with the same bytes and length, in the order received, none dropped,
\* duplicated or altered: the sends that succeeded are the datagrams
\* received, all of them whenever forward waits for the next datagram, and
\* all but the one under way otherwise.
C1_UnicastSingle ==
    ( /\ call.listener_spec.tag = "Unicast"
      /\ Len(call.forward_addrs) = 1
      /\ \A i \in 1..Len(Received) : Len(Received[i].data) <= MTU )
    => /\ Len(Sent) <= Len(Received)
       /\ Len(Received) <= Len(Sent) + 1
       /\ \A i \in 1..Len(Sent) :
             /\ Sent[i].data = Received[i].data
             /\ Len(Sent[i].data) = Len(Received[i].data)
             /\ Sent[i].to = call.forward_addrs[1]
       /\ pc = "recv" => Len(Sent) = Len(Received)

\* A unicast listener with one destination has relayed a 3-byte datagram
\* and then one of exactly 1500 bytes.
C1_Witness ==
    /\ call.listener_spec.tag = "Unicast"
    /\ Len(call.forward_addrs) = 1
    /\ pc = "recv"
    /\ Len(trace) = 4
    /\ trace[1].data = Pattern(3, 40)
    /\ IsSendOk(trace[2]) /\ trace[2].data = Pattern(3, 40)
    /\ trace[3].data = Pattern(MTU, 1)
    /\ IsSendOk(trace[4]) /\ trace[4].data = Pattern(MTU, 1)

\* The send e went through the sender socket of its destination's family.
ThroughFamilySender(e) ==
    IF e.to.fam = "V4"
    THEN /\ senders.sender_v4.is_some
         /\ senders.sender_v4.val.id = e.on
         /\ senders.sender_v4.val.local.fam = "V4"
    ELSE /\ senders.sender_v6.is_some
         /\ senders.sender_v6.val.id = e.on
         /\ senders.sender_v6.val.local.fam = "V6"

\* C2: for every datagram received and any destination list, forward issues
\* one send per entry of the list, in list order, each with the bytes
\* received and through the sender socket of the destination's family; all
\* sends for a datagram are made before the next receive.
C2_FanOut ==
    /\ \A q \in 1..Len(Sent) :
          /\ Sent[q].to = call.forward_addrs[((q - 1) % Len(call.forward_addrs)) + 1]
          /\ Sent[q].data
                = Forwarded(Received[((q - 1) \div Len(call.forward_addrs)) + 1].data)
          /\ ThroughFamilySender(Sent[q])
    /\ \A p \in 1..Len(trace) :
          IsRecv(trace[p]) =>
             SendsBefore(p) = Len(call.forward_addrs) * RecvsBefore(p)
    /\ pc = "recv" => Len(Sent) = Len(call.forward_addrs) * Len(Received)
    /\ pc = "send" =>
          Len(Sent) = Len(call.forward_addrs) * (Len(Received) - 1) + idx - 1

\* One datagram has been relayed to an IPv4 and then to an IPv6 destination,
\* through two different sender sockets.
C2_Witness ==
    /\ pc = "recv"
    /\ Len(call.forward_addrs) = 2
    /\ call.forward_addrs[1].fam = "V4"
    /\ call.forward_addrs[2].fam = "V6"
    /\ Len(trace) = 3
    /\ trace[1].data = Pattern(3, 40)
    /\ IsSendOk(trace[2]) /\ trace[2].to = call.forward_addrs[1]
    /\ IsSendOk(trace[3]) /\ trace[3].to = call.forward_addrs[2]
    /\ trace[2].data = Pattern(3, 40) /\ trace[3].data = Pattern(3, 40)
    /\ trace[2].on # trace[3].on

\* The failed send that ends the trace t left the destinations before it
\* with their copy: since the last receive, one successful send per earlier
\* destination, in list order, of the same bytes.
PartialFanOut(t, q) ==
    /\ Len(t) - q <= Len(call.forward_addrs)
    /\ LastEvent(t).to = call.forward_addrs[Len(t) - q]
    /\ \A r \in (q + 1)..(Len(t) - 1) :
          /\ IsSendOk(t[r])
          /\ t[r].to = call.forward_addrs[r - q]
          /\ t[r].data = LastEvent(t).data

C6_State ==
    /\ \A p \in 1..Len(trace) :
          ~trace[p].ok =>
             /\ p = Len(trace)
             /\ pc = "return"
             /\ ret = [ok |-> FALSE, err |-> trace[p].err]
    /\ pc = "return" => ~ret.ok
    /\ pc \in Relaying => ret = Pending
    /\ pc # "panic"
    /\ (trace # <<>> /\ IsSend(LastEvent(trace)) /\ ~LastEvent(trace).ok) =>
          PartialFanOut(trace, RecvOf(Len(trace)))

C6_Step ==
    /\ (pc \in Relaying /\ pc' \notin Relaying) =>
          /\ pc' = "return"
          /\ ~ret'.ok
          /\ trace' = Append(trace, LastEvent(trace'))
          /\ ~LastEvent(trace').ok
          /\ ret'.err = LastEvent(trace').err
    /\ pc = "return" => UNCHANGED vars

\* C6: once relaying, forward leaves that state only through an I/O error of
\* the receive or of a send, and the first error ends it: the error is
\* returned, nothing is received or sent after it, the failed send is not
\* retried, the destinations before the failed one keep their copy, and
\* forward never returns without an error.
C6_FatalError == []C6_State /\ [][C6_Step]_vars

\* The send to the second destination failed after the first destination
\* was sent its copy, and forward returned that error.
C6_Witness ==
    /\ pc = "return"
    /\ Len(call.forward_addrs) = 2
    /\ Len(trace) = 3
    /\ IsRecvOk(trace[1])
    /\ IsSendOk(trace[2]) /\ trace[2].to = call.forward_addrs[1]
    /\ IsSend(trace[3]) /\ ~trace[3].ok /\ trace[3].to = call.forward_addrs[2]
    /\ ret = [ok |-> FALSE, err |-> "ConnectionRefused"]

HasFamily(forward_addrs, fam) ==
    \E i \in 1..Len(forward_addrs) : forward_addrs[i].fam = fam

C7_State ==
    /\ pc \in {"try_into", "for_addresses"} =>
          ~senders.sender_v4.is_some /\ ~senders.sender_v6.is_some
    /\ pc \in Relaying =>
          /\ senders.sender_v4.is_some <=> HasFamily(call.forward_addrs, "V4")
          /\ senders.sender_v6.is_some <=> HasFamily(call.forward_addrs, "V6")
    /\ pc = "send" =>
          IF call.forward_addrs[idx].fam = "V4"
          THEN senders.sender_v4.is_some
          ELSE senders.sender_v6.is_some
    /\ pc # "panic"

C7_Step == pc \in Relaying => senders' = senders

\* C7: after for_addresses succeeds, the IPv4 sender exists exactly when the
\* list holds an IPv4 address and the IPv6 sender exactly when it holds an
\* IPv6 address, so send_to finds a sender for every address of the list and
\* the panic of `expect` is unreachable; the senders are created once,
\* before the loop, and never replaced.
C7_SendersMatch == []C7_State /\ [][C7_Step]_vars

\* forward is about to send to an IPv6 destination of a list without IPv4
\* addresses: there is an IPv6 sender and no IPv4 sender.
C7_Witness ==
    /\ pc = "send"
    /\ call.forward_addrs[idx].fam = "V6"
    /\ ~HasFamily(call.forward_addrs, "V4")
    /\ senders.sender_v6.is_some
    /\ ~senders.sender_v4.is_some

C9_State ==
    /\ pc \in Relaying => Len(buffer) = MTU
    /\ \A p \in 1..Len(trace) :
          (IsSend(trace[p]) /\ Len(trace[RecvOf(p)].data) > MTU) =>
             /\ Len(trace[p].data) = MTU
             /\ trace[p].data = SubSeq(trace[RecvOf(p)].data, 1, MTU)
    /\ \A p \in 1..Len(trace) :
          (IsRecvOk(trace[p]) /\ Len(trace[p].data) > MTU) =>
             \A r \in (p + 1)..Len(trace) :
                IsRecv(trace[r]) =>
                   \A i \in 1..Len(call.forward_addrs) :
                      /\ p + i < r
                      /\ IsSendOk(trace[p + i])
                      /\ trace[p + i].to = call.forward_addrs[i]

C9_Step ==
    /\ ( /\ Len(trace') = Len(trace) + 1
         /\ IsRecvOk(LastEvent(trace'))
         /\ Len(LastEvent(trace').data) > MTU )
       => /\ pc' \in Relaying
          /\ ret' = Pending
          /\ num_bytes' = MTU
    /\ pc \in Relaying => Len(buffer') = Len(buffer)

\* C9: a datagram longer than 1500 bytes is no error and does not end the
\* loop: every destination is sent exactly its first 1500 bytes, forward
\* then goes on with the next datagram, and the buffer is never resized.
C9_Truncation == []C9_State /\ [][C9_Step]_vars

\* A datagram of 1501 bytes was received, its first 1500 bytes were sent to
\* both destinations, and the next datagram has been received.
C9_Witness ==
    /\ Len(call.forward_addrs) = 2
    /\ Len(trace) = 4
    /\ IsRecvOk(trace[1]) /\ Len(trace[1].data) = MTU + 1
    /\ IsSendOk(trace[2]) /\ Len(trace[2].data) = MTU
    /\ IsSendOk(trace[3]) /\ trace[3].data = SubSeq(trace[1].data, 1, MTU)
    /\ IsRecvOk(trace[4])
    /\ pc = "send"

\* C10: the reused buffer leaks nothing between datagrams: whatever was
\* received before, the payload sent for a datagram of n <= 1500 bytes has
\* length n and holds, byte for byte, that datagram and nothing else.
C10_NoLeak ==
    /\ \A p \in 1..Len(trace) :
          (IsSend(trace[p]) /\ Len(trace[RecvOf(p)].data) <= MTU) =>
             /\ Len(trace[p].data) = Len(trace[RecvOf(p)].data)
             /\ \A i \in 1..Len(trace[p].data) :
                   trace[p].data[i] = trace[RecvOf(p)].data[i]
    /\ pc = "send" => num_bytes = Len(Forwarded(LastEvent(Received).data))

\* After a datagram of 1500 bytes, an empty datagram was received and sent
\* as an empty payload, while the buffer still holds the earlier bytes.
C10_Witness ==
    /\ Len(trace) = 4
    /\ IsRecvOk(trace[1]) /\ trace[1].data = Pattern(MTU, 1)
    /\ IsRecvOk(trace[3]) /\ trace[3].data = <<>>
    /\ IsSendOk(trace[4]) /\ trace[4].data = <<>>
    /\ buffer[1] = Pattern(MTU, 1)[1]
    /\ buffer[MTU] # 0

=============================================================================
